---------------------------- MODULE Spec2Model ----------------------------
(***************************************************************************)
(* A model of the crypto-tracker dashboard (src/app.py) and its batch      *)
(* companion (src/auto_query.py).                                          *)
(*                                                                         *)
(* Numbers are exact: a pandas float is a record that is either a rational *)
(* (k = "num", n/d in lowest terms, d > 0), an infinity (k = "inf", n the  *)
(* sign) or NaN (k = "nan").  Rounding of binary floating point is not     *)
(* modelled; the IEEE special values that the code relies on (x/0, 0/0,    *)
(* comparisons with NaN) are.                                              *)
(*                                                                         *)
(* Series are 1-based sequences; At(col, i) reads the source's 0-based     *)
(* index i.                                                                *)
(***************************************************************************)
EXTENDS Integers, Sequences, FiniteSets, TLC

VARIABLES
    \* --- indicator engine (SpecSeries, SpecMACD) ---
    prices,     \* the price column of the frame handed to the pure functions
    out,        \* columns added by calculate_macd_rsi
    advice,     \* labels derived by the query handler and by save_history
    stage,      \* how far the pure pipeline has run on `prices`
    \* --- query flow and history file (Spec) ---
    file,       \* contents of history.csv (rows of text fields), or NoFile
    ver,        \* number of writes of history.csv so far (history variable)
    pc,         \* per process: position in the query handler
    res,        \* per process: last provider response to the price-history request
    reqs,       \* per process: requests issued by the last get_price_history call
    df,         \* per process: value returned by the last get_price_history call
    view,       \* per process: what the last query displayed
    computed,   \* per process: calculate_macd_rsi ran in the last query
    wrote,      \* per process: the last query rewrote history.csv
    coin,       \* per process: coin of the last query
    record,     \* per process: save_history's local `record`
    df_all,     \* per process: save_history's local `df_all`
    readVer,    \* per process: value of ver when save_history read the file
    queries,    \* number of queries started (also the logical query time)
    log,        \* rows the sequential reading of the queries should have appended
    overlap,    \* some query started while another was still running
    \* --- top-coins cache (SpecCache) ---
    cache,      \* st.cache_data store of get_top_coins: limit -> entry or NoEntry
    now,        \* clock, seconds
    ticks,      \* number of clock advances so far
    hist        \* history variable: the calls of get_top_coins so far

svars == <<prices, out, advice, stage>>
qvars == <<file, ver, pc, res, reqs, df, view, computed, wrote, coin, record,
           df_all, readVer, queries, log, overlap>>
cvars == <<cache, now, ticks, hist>>
vars  == <<svars, qvars, cvars>>

-----------------------------------------------------------------------------
(* Bounds of the model *)

MaxLen == 15        \* longest two-level series given to the RSI code
MaxMonoLen == 18    \* longest monotone series given to the RSI code
MaxEmaLen == 2      \* longest series given to the EMA code (denominators grow as 1755^i)
MaxEmaPrice == 12   \* prices 1..MaxEmaPrice given to the EMA code
MaxSamples == 6     \* longest series given to the buy/sell heuristic
MaxPrice == 3       \* prices 1..MaxPrice given to the buy/sell heuristic
MaxQueries == 2     \* queries started in one behaviour of Spec
MaxCalls == 3       \* get_top_coins calls in one behaviour of SpecCache
MaxTicks == 3       \* clock advances in one behaviour of SpecCache

(* Program constants *)

RsiWindow == 14     \* rolling(14)
MaWindow == 5       \* rolling(5)
SpanFast == 12
SpanSlow == 26
SpanSignal == 9
TTL == 3600         \* st.cache_data(ttl=3600)

-----------------------------------------------------------------------------
(* Exact arithmetic with the IEEE special values *)

Abs(x) == IF x < 0 THEN -x ELSE x
Sgn(x) == IF x < 0 THEN -1 ELSE IF x > 0 THEN 1 ELSE 0

RECURSIVE Gcd(_, _)
Gcd(a, b) == IF b = 0 THEN a ELSE Gcd(b, a % b)

NaN == [k |-> "nan", n |-> 0, d |-> 1]
Inf(s) == [k |-> "inf", n |-> s, d |-> 1]
Num(n, d) ==
    LET g == Gcd(Abs(n), Abs(d))
        s == IF d < 0 THEN -1 ELSE 1
    IN  [k |-> "num", n |-> s * (n \div g), d |-> s * (d \div g)]
Whole(n) == [k |-> "num", n |-> n, d |-> 1]

IsNaN(a) == a.k = "nan"
IsNum(a) == a.k = "num"
FSign(a) == IF a.k = "nan" THEN 0 ELSE Sgn(a.n)

FNeg(a) == IF a.k = "nan" THEN NaN ELSE [a EXCEPT !.n = -a.n]

FAdd(a, b) ==
    IF a.k = "nan" \/ b.k = "nan" THEN NaN
    ELSE IF a.k = "inf" /\ b.k = "inf" THEN (IF a.n = b.n THEN a ELSE NaN)
    ELSE IF a.k = "inf" THEN a
    ELSE IF b.k = "inf" THEN b
    ELSE IF a.d = b.d THEN (IF a.d = 1 THEN Whole(a.n + b.n) ELSE Num(a.n + b.n, a.d))
    ELSE LET g == Gcd(a.d, b.d)
             l == (a.d \div g) * b.d
         IN  Num(a.n * (l \div a.d) + b.n * (l \div b.d), l)

FSub(a, b) == FAdd(a, FNeg(b))

FMul(a, b) ==
    IF a.k = "nan" \/ b.k = "nan" THEN NaN
    ELSE IF a.k = "inf" \/ b.k = "inf"
         THEN (IF FSign(a) * FSign(b) = 0 THEN NaN ELSE Inf(FSign(a) * FSign(b)))
    ELSE LET g1 == Gcd(Abs(a.n), b.d)
             g2 == Gcd(Abs(b.n), a.d)
         IN  Num((a.n \div g1) * (b.n \div g2), (a.d \div g2) * (b.d \div g1))

\* float division: x/0 is +-inf, 0/0 is NaN (numpy emits a warning, no exception)
FDiv(a, b) ==
    IF a.k = "nan" \/ b.k = "nan" THEN NaN
    ELSE IF a.k = "inf" /\ b.k = "inf" THEN NaN
    ELSE IF a.k = "inf" THEN Inf(IF FSign(b) < 0 THEN -a.n ELSE a.n)
    ELSE IF b.k = "inf" THEN Whole(0)
    ELSE IF b.n = 0 THEN (IF a.n = 0 THEN NaN ELSE Inf(Sgn(a.n)))
    ELSE FMul(a, Num(b.d, b.n))

\* a < b as floats compare: False whenever either side is NaN
FLt(a, b) ==
    IF a.k = "nan" \/ b.k = "nan" THEN FALSE
    ELSE IF a.k = "inf" THEN (a.n < 0 /\ ~(b.k = "inf" /\ b.n < 0))
    ELSE IF b.k = "inf" THEN b.n > 0
    ELSE a.n * b.d < b.n * a.d

FLe(a, b) == ~IsNaN(a) /\ ~IsNaN(b) /\ ~FLt(b, a)

At(col, i) == col[i + 1]
Idx(col) == 0 .. (Len(col) - 1)

RECURSIVE SumRange(_, _, _)
SumRange(col, lo, hi) ==
    IF lo > hi THEN Whole(0) ELSE FAdd(SumRange(col, lo, hi - 1), At(col, hi))

\* Series.rolling(w).mean(): no value until w observations are in the window
RollingMean(col, w) ==
    [j \in 1 .. Len(col) |->
        LET i == j - 1
        IN  IF i < w - 1 \/ \E m \in (i - w + 1) .. i : IsNaN(At(col, m))
            THEN NaN
            ELSE FDiv(SumRange(col, i - w + 1, i), Whole(w))]

-----------------------------------------------------------------------------
(* Indicator engine: calculate_macd_rsi *)

\* the float column df['價格'] built from the provider's numbers
PriceColumn(ps) == [j \in 1 .. Len(ps) |-> Whole(ps[j])]

\* Series.diff(): no value at index 0
Diff(col) == [j \in 1 .. Len(col) |-> IF j = 1 THEN NaN ELSE FSub(col[j], col[j - 1])]

\* variant: the missing delta at index 0 stays missing (as delta.clip(lower=0) would)
GainKeepsNaN(delta) ==
    [j \in 1 .. Len(delta) |->
        IF IsNaN(delta[j]) THEN NaN
        ELSE IF FLt(Whole(0), delta[j]) THEN delta[j] ELSE Whole(0)]

\* delta.where(delta > 0, 0): the comparison is False for NaN, so index 0 becomes 0
Gain(delta) ==
    [j \in 1 .. Len(delta) |-> IF FLt(Whole(0), delta[j]) THEN delta[j] ELSE Whole(0)]

\* variant: the minus sign of line 47 dropped
LossNotNegated(delta) ==
    [j \in 1 .. Len(delta) |-> IF FLt(delta[j], Whole(0)) THEN delta[j] ELSE Whole(0)]

\* -delta.where(delta < 0, 0)
Loss(delta) ==
    [j \in 1 .. Len(delta) |->
        FNeg(IF FLt(delta[j], Whole(0)) THEN delta[j] ELSE Whole(0))]

\* variant: a division guarded against avg_loss = 0, giving no value there
RsZeroGuarded(avg_gain, avg_loss) ==
    [j \in 1 .. Len(avg_gain) |->
        IF IsNum(avg_loss[j]) /\ avg_loss[j].n = 0 THEN NaN
        ELSE FDiv(avg_gain[j], avg_loss[j])]

\* rs = avg_gain / avg_loss
Rs(avg_gain, avg_loss) ==
    [j \in 1 .. Len(avg_gain) |-> FDiv(avg_gain[j], avg_loss[j])]

\* 100 - (100 / (1 + rs))
RsiOf(rs) ==
    [j \in 1 .. Len(rs) |->
        FSub(Whole(100), FDiv(Whole(100), FAdd(Whole(1), rs[j])))]

\* lines 45-51 of calculate_macd_rsi
RsiColumns(ps) ==
    LET delta    == Diff(PriceColumn(ps))
        gain     == Gain(delta)
        loss     == Loss(delta)
        avg_gain == RollingMean(gain, RsiWindow)
        avg_loss == RollingMean(loss, RsiWindow)
        rs       == Rs(avg_gain, avg_loss)
    IN  [avg_gain |-> avg_gain, avg_loss |-> avg_loss, RSI |-> RsiOf(rs)]

\* Series.ewm(span=span, adjust=adjust).mean(): the weighted mean pandas
\* carries from one observation to the next, with the weight of the past.
\* com = (span - 1) / 2, alpha = 1 / (1 + com); the past is discounted by
\* 1 - alpha and the new observation weighs alpha (adjust=False) or 1.
RECURSIVE EwmScan(_, _, _, _)
EwmScan(vals, span, adjust, j) ==
    IF j = 1 THEN [w |-> vals[1], old_wt |-> Whole(1)]
    ELSE LET com     == Num(span - 1, 2)
             alpha   == FDiv(Whole(1), FAdd(Whole(1), com))
             new_wt  == IF adjust THEN Whole(1) ELSE alpha
             prev    == EwmScan(vals, span, adjust, j - 1)
             old_wt  == FMul(prev.old_wt, FSub(Whole(1), alpha))
             cur     == vals[j]
         IN  [w |-> IF prev.w # cur
                    THEN FDiv(FAdd(FMul(old_wt, prev.w), FMul(new_wt, cur)),
                              FAdd(old_wt, new_wt))
                    ELSE prev.w,
              old_wt |-> IF adjust THEN FAdd(old_wt, new_wt) ELSE Whole(1)]

\* variant: adjust left at its default, True
EwmAdjusted(vals, span) ==
    [j \in 1 .. Len(vals) |-> EwmScan(vals, span, TRUE, j).w]

\* .ewm(span=span, adjust=False).mean()
Ewm(vals, span) ==
    [j \in 1 .. Len(vals) |-> EwmScan(vals, span, FALSE, j).w]

\* lines 41-44 of calculate_macd_rsi
MacdColumns(ps) ==
    LET price  == PriceColumn(ps)
        ema12  == Ewm(price, SpanFast)
        ema26  == Ewm(price, SpanSlow)
        macd   == [j \in 1 .. Len(ps) |-> FSub(ema12[j], ema26[j])]
    IN  [EMA12 |-> ema12, EMA26 |-> ema26, MACD |-> macd,
         Signal |-> Ewm(macd, SpanSignal)]

-----------------------------------------------------------------------------
(* Buy/sell heuristic *)

\* lines 152-154 of the query handler; .iloc[-1] is the entry at the last index
ShownAction(ps) ==
    LET col == PriceColumn(ps)
        latest_price == col[Len(ps)]
        ma5 == RollingMean(col, MaWindow)[Len(ps)]
    IN  IF FLt(latest_price, ma5) THEN "buy" ELSE "sell"

\* variant: save_history comparing with <= where the handler compares with <
SavedActionLe(ps) ==
    LET col == PriceColumn(ps)
    IN  IF FLe(col[Len(ps)], RollingMean(col, MaWindow)[Len(ps)])
        THEN "buy" ELSE "sell"

\* line 84 of save_history
SavedAction(ps) ==
    LET col == PriceColumn(ps)
    IN  IF FLt(col[Len(ps)], RollingMean(col, MaWindow)[Len(ps)])
        THEN "buy" ELSE "sell"

-----------------------------------------------------------------------------
(* Values of the variables a specification does not use *)

QIdle ==
    /\ file = <<>> /\ ver = 0 /\ queries = 0 /\ log = <<>> /\ overlap = FALSE
    /\ pc = <<>> /\ res = <<>> /\ reqs = <<>> /\ df = <<>> /\ view = <<>>
    /\ computed = <<>> /\ wrote = <<>> /\ coin = <<>> /\ record = <<>>
    /\ df_all = <<>> /\ readVer = <<>>

CIdle == cache = <<>> /\ now = 0 /\ ticks = 0 /\ hist = <<>>

SIdle == prices = <<>> /\ out = <<>> /\ advice = <<>> /\ stage = "unused"

-----------------------------------------------------------------------------
(* SpecRSI: lines 45-51 of calculate_macd_rsi applied to every series of   *)
(* the input set.  Two price levels give every pattern of rises, falls and *)
(* flat stretches; the ramps add strictly increasing series and the steps  *)
(* series that rise once and stay flat before and after.                   *)

Levels == {1, 2}
TwoLevelSeries == UNION {[1 .. n -> Levels] : n \in 0 .. MaxLen}
Ramps == {[j \in 1 .. n |-> s * j] : n \in 1 .. MaxMonoLen, s \in 1 .. 3}
Steps == {[j \in 1 .. n |-> IF j <= c THEN 1 ELSE 2] : n \in 1 .. MaxMonoLen, c \in 0 .. MaxMonoLen}
SeriesInputs == TwoLevelSeries \cup Ramps \cup Steps

RsiInit ==
    /\ prices \in SeriesInputs
    /\ out = <<>> /\ advice = <<>> /\ stage = "input"
    /\ QIdle /\ CIdle

CalcRsi ==
    /\ stage = "input"
    /\ out' = RsiColumns(prices)
    /\ stage' = "calculated"
    /\ UNCHANGED <<prices, advice, qvars, cvars>>

RsiNext == CalcRsi

SpecRSI == RsiInit /\ [][RsiNext]_vars

RsiDone == stage = "calculated"

ChangeInWindow(ps, i) ==
    \E m \in (i - RsiWindow + 1) .. i : m >= 1 /\ At(ps, m - 1) # At(ps, m)

C2_RsiBounded ==
    RsiDone =>
        \A i \in Idx(prices) :
            ~IsNaN(At(out.RSI, i)) =>
                /\ FLe(Whole(0), At(out.RSI, i))
                /\ FLe(At(out.RSI, i), Whole(100))

C2_Witness ==
    /\ RsiDone
    /\ \E i \in Idx(prices) :
          /\ IsNum(At(out.RSI, i))
          /\ FLt(Whole(0), At(out.RSI, i))
          /\ FLt(At(out.RSI, i), Whole(100))

NoDecreases(ps) == \A j \in 2 .. Len(ps) : ps[j - 1] <= ps[j]
\* monotonically increasing with no decreases: never falls, and rises overall
Increasing(ps) == NoDecreases(ps) /\ Len(ps) >= 2 /\ ps[1] < ps[Len(ps)]
\* some delta of the 14-delta window ending at index i is a rise
RiseInWindow(ps, i) ==
    \E m \in (i - RsiWindow + 1) .. i : m >= 1 /\ At(ps, m - 1) < At(ps, m)

\* C3 (as claimed): a monotonically increasing series with no decreases has
\* avg_loss = 0 and rsi = 100 at every index >= 14.
C3_NoDecreaseRsi100 ==
    (RsiDone /\ Increasing(prices)) =>
        \A i \in Idx(prices) :
            i >= 14 => /\ At(out.avg_loss, i) = Whole(0)
                       /\ At(out.RSI, i) = Whole(100)

\* C3 (amended): a series with no decreases has avg_loss = 0 at every index
\* >= 14; there rsi = 100 when the window holds at least one rise, and rsi
\* has no value when the window is flat.
C3_NoDecreaseRsi100OrNone ==
    (RsiDone /\ NoDecreases(prices)) =>
        \A i \in Idx(prices) :
            i >= 14 => /\ At(out.avg_loss, i) = Whole(0)
                       /\ IF RiseInWindow(prices, i)
                          THEN At(out.RSI, i) = Whole(100)
                          ELSE IsNaN(At(out.RSI, i))

C3_Witness ==
    /\ RsiDone /\ NoDecreases(prices) /\ Len(prices) >= 16
    /\ At(out.RSI, 14) = Whole(100)
    /\ IsNaN(At(out.RSI, 15))

-----------------------------------------------------------------------------
(* SpecAdvice: the buy/sell heuristic applied to every short series *)

AdviceInputs == UNION {[1 .. n -> 1 .. MaxPrice] : n \in 0 .. MaxSamples}

AdviceInit ==
    /\ prices \in AdviceInputs
    /\ out = <<>> /\ advice = <<>> /\ stage = "input"
    /\ QIdle /\ CIdle

\* guarded as the callers are: `df is not None and not df.empty`
Advise ==
    /\ stage = "input"
    /\ Len(prices) > 0
    /\ advice' = [shown |-> ShownAction(prices), saved |-> SavedAction(prices)]
    /\ stage' = "advised"
    /\ UNCHANGED <<prices, out, qvars, cvars>>

AdviceNext == Advise

SpecAdvice == AdviceInit /\ [][AdviceNext]_vars

RECURSIVE SumLast(_, _)
SumLast(ps, c) == IF c = 0 THEN 0 ELSE ps[Len(ps) - c + 1] + SumLast(ps, c - 1)

\* latest price strictly below the mean of the last 5 prices
BelowMean5(ps) == Len(ps) >= 5 /\ 5 * ps[Len(ps)] < SumLast(ps, 5)

\* C9: the label is 'buy' exactly when the latest price is strictly below
\* the mean of the last 5 prices and 'sell' otherwise, 'sell' whenever the
\* series has fewer than 5 samples, and save_history stores the label shown.
C9_Recommendation ==
    stage = "advised" =>
        /\ advice.shown = (IF BelowMean5(prices) THEN "buy" ELSE "sell")
        /\ (Len(prices) < 5 => advice.shown = "sell")
        /\ advice.saved = advice.shown

C9_Witness ==
    /\ stage = "advised"
    /\ advice.shown = "buy" /\ advice.saved = "buy"
    /\ Len(prices) >= 5

-----------------------------------------------------------------------------
(* SpecMACD: lines 41-44 of calculate_macd_rsi applied to every short      *)
(* series.  The exact denominators grow as 1755^i, which bounds the length.*)

EmaInputs == UNION {[1 .. n -> 1 .. MaxEmaPrice] : n \in 0 .. MaxEmaLen}

MacdInit ==
    /\ prices \in EmaInputs
    /\ out = <<>> /\ advice = <<>> /\ stage = "input"
    /\ QIdle /\ CIdle

CalcMacd ==
    /\ stage = "input"
    /\ out' = MacdColumns(prices)
    /\ stage' = "macd"
    /\ UNCHANGED <<prices, advice, qvars, cvars>>

MacdNext == CalcMacd

SpecMACD == MacdInit /\ [][MacdNext]_vars

\* ema[0] = x[0]; ema[i] = a*x[i] + (1-a)*ema[i-1] with a = 2/(p+1)
IsEmaOf(ema, x, p) ==
    LET a == Num(2, p + 1)
    IN  /\ Len(ema) = Len(x)
        /\ At(ema, 0) = At(x, 0)
        /\ \A i \in Idx(x) :
              i >= 1 => At(ema, i) = FAdd(FMul(a, At(x, i)),
                                         FMul(FSub(Whole(1), a), At(ema, i - 1)))

-----------------------------------------------------------------------------
(* SpecCache: get_top_coins under @st.cache_data(ttl=3600) *)

Limits == {10, 50}
\* what the provider does with the coins/markets request: a JSON body, or an
\* exception out of requests.get / res.json()
CoinResponses == {"coins", "error"}
TickSizes == {1, TTL - 1, TTL}

NoEntry == [present |-> FALSE, value |-> "", expires |-> 0]

\* variant: an entry still served at the instant it expires
FreshInclusive(entry, t) == entry.present /\ t <= entry.expires

\* an entry is served while the clock is strictly before its expiry
Fresh(entry, t) == entry.present /\ t < entry.expires

\* the function body, lines 17-24: the JSON body, or [] after any exception
FetchTopCoins(resp) == IF resp = "error" THEN "[]" ELSE resp

\* st.cache_data keys an entry by the function's arguments
CacheKey(limit) == limit

CacheInit ==
    /\ cache = [l \in Limits |-> NoEntry]
    /\ now = 0 /\ ticks = 0 /\ hist = <<>>
    /\ QIdle /\ SIdle

GetTopCoins(limit, resp) ==
    /\ Len(hist) < MaxCalls
    /\ LET key == CacheKey(limit)
       IN  IF Fresh(cache[key], now)
           THEN /\ hist' = Append(hist, [limit |-> limit, t |-> now,
                                         ret |-> cache[key].value, fetched |-> FALSE])
                /\ UNCHANGED cache
           ELSE /\ cache' = [cache EXCEPT ![key] =
                                [present |-> TRUE, value |-> FetchTopCoins(resp),
                                 expires |-> now + TTL]]
                /\ hist' = Append(hist, [limit |-> limit, t |-> now,
                                         ret |-> FetchTopCoins(resp), fetched |-> TRUE])
    /\ UNCHANGED <<now, ticks, qvars, svars>>

Tick(d) ==
    /\ ticks < MaxTicks
    /\ now' = now + d
    /\ ticks' = ticks + 1
    /\ UNCHANGED <<cache, hist, qvars, svars>>

CacheNext ==
    \/ \E limit \in Limits, resp \in CoinResponses : GetTopCoins(limit, resp)
    \/ \E d \in TickSizes : Tick(d)

SpecCache == CacheInit /\ [][CacheNext]_vars

\* the calls before call k, with the same limit, that went to the network
Fetches(k) == {j \in 1 .. (k - 1) : hist[j].limit = hist[k].limit /\ hist[j].fetched}
LastFetch(k) == CHOOSE j \in Fetches(k) : \A i \in Fetches(k) : i <= j

\* C7: a call of get_top_coins goes to the network exactly when no value for
\* its limit was stored during the last hour; otherwise it returns the
\* stored value, also when that value is the [] of a failed request.
C7_Memoized ==
    \A k \in 1 .. Len(hist) :
        IF Fetches(k) = {} THEN hist[k].fetched
        ELSE LET j == LastFetch(k)
             IN  /\ hist[k].fetched <=> (hist[k].t - hist[j].t >= TTL)
                 /\ ~hist[k].fetched => hist[k].ret = hist[j].ret

C7_Witness ==
    /\ Len(hist) = 3
    /\ hist[1].fetched /\ hist[1].ret = "[]"
    /\ hist[2].limit = hist[1].limit /\ ~hist[2].fetched /\ hist[2].ret = "[]"
    /\ hist[2].t > hist[1].t
    /\ hist[3].limit = hist[1].limit /\ hist[3].fetched
    /\ hist[3].t = hist[1].t + TTL

-----------------------------------------------------------------------------
(* history.csv: DataFrame.to_csv and pandas.read_csv                       *)
(*                                                                         *)
(* A value of a frame is a string or a float (NaN is the missing value).   *)
(* A cell of the file is text: s holds the characters, and the text of a   *)
(* number is s = "#" with the number in v.                                 *)

StrVal(s) == [t |-> "str", s |-> s, v |-> NaN]
NumVal(x) == [t |-> "num", s |-> "", v |-> x]
Missing == NumVal(NaN)

\* some of the texts read_csv takes for a missing value by default
NaTokens == {"", "#N/A", "N/A", "NA", "NULL", "NaN", "None", "n/a", "nan", "null"}

\* to_csv(index=False): a string as it is, a number printed, NaN as nothing
ToCsvCell(val) ==
    IF val.t = "str" THEN [s |-> val.s, v |-> NaN]
    ELSE IF IsNaN(val.v) THEN [s |-> "", v |-> NaN]
    ELSE [s |-> "#", v |-> val.v]

\* read_csv: a number parsed, a default NA text as NaN, other text as it is
ReadCsvCell(c) ==
    IF c.s = "#" THEN NumVal(c.v)
    ELSE IF c.s \in NaTokens THEN Missing
    ELSE StrVal(c.s)

ToCsv(frame) ==
    [j \in 1 .. Len(frame) |-> [f \in DOMAIN frame[j] |-> ToCsvCell(frame[j][f])]]
ReadCsv(rows) ==
    [j \in 1 .. Len(rows) |-> [f \in DOMAIN rows[j] |-> ReadCsvCell(rows[j][f])]]

NoFile == [exists |-> FALSE, rows |-> <<>>]

-----------------------------------------------------------------------------
(* The provider and get_price_history *)

Procs == {"dash", "auto"}

\* the entries of the coin list the two programs choose from
CoinList == {[id |-> "bitcoin", name |-> "Bitcoin"], [id |-> "na", name |-> "NA"]}
\* auto_query.py looks up target_coin_id; the dashboard offers the whole list
Choices(p) == IF p = "auto" THEN {c \in CoinList : c.id = "bitcoin"} ELSE CoinList

\* price lists a response may carry: none, too few for a 5-sample mean, five
SeriesPool == {<< >>, <<2, 1>>, <<3, 3, 3, 3, 1>>}

\* what comes back from the market_chart request: an exception out of
\* requests.get, or an answer with a status and a body that is not JSON,
\* JSON without 'prices', or JSON with a 'prices' list
NoResponse == [kind |-> "none", status |-> 0, body |-> "", prices |-> << >>]
PriceResponses ==
    {[kind |-> "exception", status |-> 0, body |-> "", prices |-> << >>]}
    \cup {[kind |-> "answer", status |-> st, body |-> b, prices |-> << >>] :
             st \in {200, 500}, b \in {"notjson", "nokey"}}
    \cup {[kind |-> "answer", status |-> st, body |-> "prices", prices |-> ps] :
             st \in {200, 500}, ps \in SeriesPool}

None == [none |-> TRUE, prices |-> << >>]
Frame(ps) == [none |-> FALSE, prices |-> ps]

\* variant: an empty 'prices' list treated as a failure
GetPriceHistoryEmptyIsNone(resp) ==
    IF resp.kind = "answer" /\ resp.body = "prices" /\ resp.prices # << >>
    THEN Frame(resp.prices) ELSE None

\* lines 26-37: any exception gives None; the status is never looked at
get_price_history(resp) ==
    IF resp.kind = "exception" THEN None
    ELSE IF resp.body = "notjson" THEN None
    ELSE IF resp.body = "nokey" THEN None
    ELSE Frame(resp.prices)

\* `df is not None and not df.empty`
Usable(d) == ~d.none /\ Len(d.prices) > 0

-----------------------------------------------------------------------------
(* save_history *)

TimeText(n) == "T" \o ToString(n)

\* lines 78-85: the record of one query
Record(c, ps, t) ==
    LET col == PriceColumn(ps)
    IN  [name   |-> StrVal(c.name),
         id     |-> StrVal(c.id),
         time   |-> StrVal(TimeText(t)),
         price  |-> NumVal(col[Len(ps)]),
         ma5    |-> NumVal(RollingMean(col, MaWindow)[Len(ps)]),
         action |-> StrVal(SavedAction(ps))]

\* lines 87-92: the old rows read back, and the record after them
DfAll(f, rec) == IF f.exists THEN ReadCsv(f.rows) \o <<rec>> ELSE <<rec>>

-----------------------------------------------------------------------------
(* Spec: the query flow of the dashboard session and of auto_query.py.     *)
(* save_history reads history.csv and writes it back in two steps, and the *)
(* steps of the two processes interleave.  Each write of the file is taken *)
(* as one step.  Charts and alerts do not touch the state and are left out.*)

OldRows == ToCsv(<<Record([id |-> "bitcoin", name |-> "Bitcoin"], <<2, 1>>, 0)>>)

Init ==
    /\ file \in {NoFile, [exists |-> TRUE, rows |-> OldRows]}
    /\ log = file.rows
    /\ ver = 0 /\ queries = 0 /\ overlap = FALSE
    /\ pc = [p \in Procs |-> "idle"]
    /\ res = [p \in Procs |-> NoResponse]
    /\ reqs = [p \in Procs |-> 0]
    /\ df = [p \in Procs |-> None]
    /\ view = [p \in Procs |-> "none"]
    /\ computed = [p \in Procs |-> FALSE]
    /\ wrote = [p \in Procs |-> FALSE]
    /\ coin = [p \in Procs |-> [id |-> "", name |-> ""]]
    /\ record = [p \in Procs |-> << >>]
    /\ df_all = [p \in Procs |-> << >>]
    /\ readVer = [p \in Procs |-> 0]
    /\ SIdle /\ CIdle

\* the handler up to the call of save_history (app.py 147-177, auto_query.py 25-32)
Query(p, c, resp) ==
    /\ pc[p] = "idle"
    /\ queries < MaxQueries
    /\ queries' = queries + 1
    /\ overlap' = (overlap \/ \E q \in Procs \ {p} : pc[q] # "idle")
    /\ coin' = [coin EXCEPT ![p] = c]
    /\ res' = [res EXCEPT ![p] = resp]
    /\ reqs' = [reqs EXCEPT ![p] = 1]
    /\ df' = [df EXCEPT ![p] = get_price_history(resp)]
    /\ wrote' = [wrote EXCEPT ![p] = FALSE]
    /\ IF Usable(get_price_history(resp))
       THEN /\ computed' = [computed EXCEPT ![p] = TRUE]
            /\ view' = [view EXCEPT ![p] = ShownAction(resp.prices)]
            /\ pc' = [pc EXCEPT ![p] = "save"]
       ELSE /\ computed' = [computed EXCEPT ![p] = FALSE]
            /\ view' = [view EXCEPT ![p] = "failed"]
            /\ pc' = [pc EXCEPT ![p] = "idle"]
    /\ UNCHANGED <<file, ver, record, df_all, readVer, log, svars, cvars>>

\* save_history, lines 78-92
SaveRead(p) ==
    /\ pc[p] = "save"
    /\ LET rec == Record(coin[p], df[p].prices, queries)
       IN  /\ record' = [record EXCEPT ![p] = rec]
           /\ df_all' = [df_all EXCEPT ![p] = DfAll(file, rec)]
           /\ log' = log \o ToCsv(<<rec>>)
    /\ readVer' = [readVer EXCEPT ![p] = ver]
    /\ pc' = [pc EXCEPT ![p] = "write"]
    /\ UNCHANGED <<file, ver, res, reqs, df, view, computed, wrote, coin,
                   queries, overlap, svars, cvars>>

\* variant: the file read again at the moment of writing
WrittenAfterReread(p) == ToCsv(DfAll(file, record[p]))

\* what line 93 puts in the file: df_all as save_history built it
Written(p) == ToCsv(df_all[p])

\* save_history, line 93
SaveWrite(p) ==
    /\ pc[p] = "write"
    /\ file' = [exists |-> TRUE, rows |-> Written(p)]
    /\ ver' = ver + 1
    /\ wrote' = [wrote EXCEPT ![p] = TRUE]
    /\ pc' = [pc EXCEPT ![p] = "idle"]
    /\ UNCHANGED <<res, reqs, df, view, computed, coin, record, df_all,
                   readVer, queries, log, overlap, svars, cvars>>

Next ==
    \/ \E p \in Procs : \E c \in Choices(p), resp \in PriceResponses : Query(p, c, resp)
    \/ \E p \in Procs : SaveRead(p)
    \/ \E p \in Procs : SaveWrite(p)

Spec == Init /\ [][Next]_vars

AllIdle == \A p \in Procs : pc[p] = "idle"

\* C5 (as claimed): when the provider answers the price-history request
\* with a non-2xx status, whatever the body, get_price_history returns None,
\* having issued exactly one request.
C5_NonOkStatusGivesNone ==
    \A p \in Procs :
        (res[p].kind = "answer" /\ res[p].status \notin 200 .. 299) =>
            (df[p] = None /\ reqs[p] = 1)

EmptyPricesAnswer(r) == r.kind = "answer" /\ r.body = "prices" /\ r.prices = << >>

\* C6: on the body {"prices": []} get_price_history returns an empty series,
\* not None, and the query takes the failure branch: no indicators are
\* computed and save_history is not entered, so no row is written.
C6_EmptyPricesGivesEmptyFrame ==
    \A p \in Procs :
        EmptyPricesAnswer(res[p]) =>
            /\ df[p] # None /\ ~df[p].none /\ Len(df[p].prices) = 0
            /\ view[p] = "failed"
            /\ ~computed[p] /\ ~wrote[p] /\ pc[p] = "idle"

C6_Witness ==
    \E p \in Procs :
        /\ EmptyPricesAnswer(res[p]) /\ res[p].status = 200
        /\ df[p] = Frame(<< >>) /\ view[p] = "failed"
        /\ file.exists /\ ver = 1

\* C8 (as claimed): after queries run one after the other, the file holds
\* its previous rows unchanged and in order, then one row for each query
\* whose fetch returned a non-empty series, in query order.
C8_SequentialAppendOnly ==
    (~overlap /\ AllIdle) => file.rows = log

\* the two processes' last saves read the same contents of the file, and
\* theirs are the last two writes of it
BothReadBeforeEitherWrote(p, q) ==
    /\ p # q
    /\ wrote[p] /\ wrote[q] /\ pc[p] = "idle" /\ pc[q] = "idle"
    /\ readVer[p] = readVer[q]
    /\ ver = readVer[p] + 2

\* C10: when two save_history calls both read the file before either writes
\* it, the file ends with the rows both read and only one of the two new
\* records: the other update is lost.
C10_LostUpdate ==
    \A p, q \in Procs :
        BothReadBeforeEitherWrote(p, q) =>
            /\ Len(df_all[p]) = Len(df_all[q])
            /\ Len(file.rows) = Len(df_all[p])
            /\ file.rows \in {ToCsv(df_all[p]), ToCsv(df_all[q])}

C10_Witness ==
    /\ BothReadBeforeEitherWrote("dash", "auto")
    /\ record["dash"] # record["auto"]
    /\ Len(log) = Len(file.rows) + 1

=============================================================================
